---- MODULE Spec2Model ----
(***************************************************************************)
(* E-Commerce API (src/main.py): five HTTP routes over a document store    *)
(* with two collections, 'product' and 'order'.                            *)
(*                                                                         *)
(* Every storage call (count_documents, insert_many, find, insert_one,     *)
(* list_collection_names) is one atomic step; a handler that makes several *)
(* storage calls (list_products) is split at those calls so that           *)
(* concurrent requests interleave between them.  Handlers with at most one *)
(* storage call are one action.                                            *)
(*                                                                         *)
(* Decimal prices are carried as their literal text ("19.99"): TLA+ has no *)
(* floating point values.  The pictographs that prefix the diagnostic      *)
(* strings of /test are left out of the string literals.                   *)
(***************************************************************************)
EXTENDS Integers, Sequences, FiniteSets, TLC

\* ------------------------------------------------------------------ bounds
MaxReq == 4        \* requests issued in one behaviour
MaxConc == 2       \* product listings in flight at once
MaxItems == 2      \* line items in one order payload
MaxExtra == 11     \* collections of the database besides 'product' and 'order'
MaxErrLen == 51    \* longest text of an exception raised by the storage client

\* ------------------------------------------------- constants of the program
CollectionsShown == 10   \* collections[:10]
ErrTextShown == 50       \* str(e)[:50]

VARIABLES
  db,            \* the connection handle imported from database: "None",
                 \* "Working" (handle present, calls succeed) or "Failing"
                 \* (handle present, every storage call raises)
  product,       \* the 'product' collection: documents in storage order
  order,         \* the 'order' collection: documents in storage order
  product0,      \* the 'product' collection as it was at process start
  nextId,        \* next ObjectId the storage layer assigns
  reqs,          \* listing slot -> progress of the GET /api/products in it
  issued,        \* number of requests received so far
  listed,        \* number of GET /api/products completed so far
  last           \* the request completed last, with its response

vars == <<db, product, order, product0, nextId, reqs, issued, listed, last>>

Conc == 1..MaxConc

Min(a, b) == IF a <= b THEN a ELSE b

\* ------------------------------------------------------------ schema layer
ProductIds == {"x"}
\* Quantities on both sides of the one value the service compares with, 0
Quantities == {-1, 0, 1}
LineItems == [product_id : ProductIds, quantity : Quantities]
SeqsUpTo(S, n) == UNION {[1..k -> S] : k \in 0..n}
\* Order payloads that pass schema validation: a list of line items, each
\* a product reference and an integer quantity (no sign constraint).
Order == [items : SeqsUpTo(LineItems, MaxItems)]

\* ------------------------------------------------------------ storage layer
\* str(ObjectId): the identifier rendered as text
str(oid) == "oid" \o ToString(oid)

\* create_document(collection, data): the record with its generated _id
NewDocument(data, oid) ==
  [k \in DOMAIN data \cup {"_id"} |-> IF k = "_id" THEN oid ELSE data[k]]

\* get_documents(collection): every record of the collection, in storage order
get_documents(coll) == coll

\* db.list_collection_names(): a collection exists once it holds a document;
\* the database holds `extra` collections besides 'product' and 'order'
ExtraName(i) == "coll" \o ToString(i)
list_collection_names(extra) ==
  (IF product # <<>> THEN <<"product">> ELSE <<>>)
  \o (IF order # <<>> THEN <<"order">> ELSE <<>>)
  \o [i \in 1..extra |-> ExtraName(i)]
ExtraCounts == {0, CollectionsShown - 2, MaxExtra}

\* Texts of the exceptions a failing storage call raises
ErrText(n) == [i \in 1..n |-> i % 10]
ErrLens == {0, ErrTextShown - 1, ErrTextShown, MaxErrLen}

\* ------------------------------------------------------------- _serialize
\* Variant: the key is read with d["_id"] instead of d.pop("_id")
SerializeKeepsKey(doc) ==
  IF DOMAIN doc = {} THEN doc
  ELSE IF "_id" \in DOMAIN doc
       THEN [k \in DOMAIN doc \cup {"id"} |->
               IF k = "id" THEN str(doc["_id"]) ELSE doc[k]]
       ELSE doc
\* d = dict(doc); if "_id" in d: d["id"] = str(d.pop("_id"))
_serialize(doc) ==
  IF DOMAIN doc = {} THEN doc
  ELSE IF "_id" \in DOMAIN doc
       THEN [k \in (DOMAIN doc \ {"_id"}) \cup {"id"} |->
               IF k = "id" THEN str(doc["_id"]) ELSE doc[k]]
       ELSE doc

\* ----------------------------------------------------- _ensure_seed_products
sample_products == <<
  [title |-> "Classic Tee",
   description |-> "Soft cotton tee in a relaxed fit.",
   price |-> "19.99", category |-> "Apparel", in_stock |-> TRUE,
   image |-> "https://images.unsplash.com/photo-1512436991641-6745cdb1723f?w=800&q=80&auto=format&fit=crop"],
  [title |-> "Canvas Sneakers",
   description |-> "Everyday low-top sneakers with cushioned soles.",
   price |-> "49.0", category |-> "Shoes", in_stock |-> TRUE,
   image |-> "https://images.unsplash.com/photo-1528701800489-20beeb13d1d1?w=800&q=80&auto=format&fit=crop"],
  [title |-> "Leather Backpack",
   description |-> "Durable backpack with laptop sleeve.",
   price |-> "89.5", category |-> "Bags", in_stock |-> TRUE,
   image |-> "https://images.unsplash.com/photo-1521133573892-e44906baee46?w=800&q=80&auto=format&fit=crop"],
  [title |-> "Aviator Sunglasses",
   description |-> "UV400 protection with classic metal frame.",
   price |-> "29.95", category |-> "Accessories", in_stock |-> TRUE,
   image |-> "https://images.unsplash.com/photo-1511499767150-a48a237f0083?w=800&q=80&auto=format&fit=crop"] >>

\* Variants: the count test dropped, and a test no count passes
SeedAlways(count) == count >= 0
SeedNever(count) == count < 0
\* if count == 0
NeedsSeed(count) == count = 0

\* Variant: the last document of the batch is not inserted
InsertAllButLast(coll, docs, oid) ==
  coll \o [i \in 1..(Len(docs) - 1) |-> NewDocument(docs[i], oid + i - 1)]
\* db["product"].insert_many(validated): every sample gets a fresh _id
insert_many(coll, docs, oid) ==
  coll \o [i \in 1..Len(docs) |-> NewDocument(docs[i], oid + i - 1)]

\* ------------------------------------------------------------- create_order
\* Variants: zero accepted; only the first item tested; one rejected
InvalidOrderNegativeOnly(o) ==
  \/ Len(o.items) = 0
  \/ \E i \in 1..Len(o.items) : o.items[i].quantity < 0
InvalidOrderFirstItemOnly(o) ==
  \/ Len(o.items) = 0
  \/ o.items[1].quantity <= 0
InvalidOrderOffByOne(o) ==
  \/ Len(o.items) = 0
  \/ \E i \in 1..Len(o.items) : o.items[i].quantity <= 1
\* not order.items or any(i.quantity <= 0 for i in order.items)
InvalidOrder(o) ==
  \/ Len(o.items) = 0
  \/ \E i \in 1..Len(o.items) : o.items[i].quantity <= 0

\* ------------------------------------------------------------ list_products
fallback_products == <<
  [id |-> "demo-1", title |-> "Classic Tee",
   description |-> "Soft cotton tee in a relaxed fit.",
   price |-> "19.99", category |-> "Apparel", in_stock |-> TRUE,
   image |-> "https://images.unsplash.com/photo-1512436991641-6745cdb1723f?w=800&q=80&auto=format&fit=crop"] >>

\* ------------------------------------------------------------------ requests
NoBody == <<>>
NoRequest == [kind |-> "none", req |-> 0, payload |-> NoBody, status |-> 0,
              body |-> NoBody]
Idle == [pc |-> "idle", req |-> 0, count |-> -1]

\* Listings take the lowest idle slot
Free(r) == reqs[r].pc = "idle" /\ \A q \in 1..(r - 1) : reqs[q].pc # "idle"

\* The response to request number req
Response(kind, req, payload, status, body) ==
  [kind |-> kind, req |-> req, payload |-> payload, status |-> status,
   body |-> body]

\* Product collections a process can find at start: empty, or holding a
\* document written earlier, with or without a field named 'id' of its own
LegacyDoc == [_id |-> 900, title |-> "Wool Scarf", description |-> "Warm.",
              price |-> "15.0", category |-> "Accessories", in_stock |-> FALSE,
              image |-> "https://example.com/scarf.png"]
LegacyDocWithId == [_id |-> 901, id |-> "sku-7", title |-> "Wool Hat",
              description |-> "Warm.", price |-> "12.0",
              category |-> "Accessories", in_stock |-> TRUE,
              image |-> "https://example.com/hat.png"]
InitialProducts == {<<>>, <<LegacyDoc>>, <<LegacyDocWithId>>}

Init ==
  /\ db \in {"None", "Working", "Failing"}
  /\ product \in InitialProducts
  /\ product0 = product
  /\ order = <<>>
  /\ nextId = 1
  /\ reqs = [r \in Conc |-> Idle]
  /\ issued = 0
  /\ listed = 0
  /\ last = NoRequest

Receive == issued < MaxReq /\ issued' = issued + 1

\* GET /
read_root ==
  /\ Receive
  /\ last' = Response("read_root", issued', NoBody, 200,
                      [message |-> "E-Commerce Backend is running"])
  /\ UNCHANGED <<db, product, order, product0, nextId, reqs, listed>>

\* GET /api/health
health ==
  /\ Receive
  /\ last' = Response("health", issued', NoBody, 200, [status |-> "ok"])
  /\ UNCHANGED <<db, product, order, product0, nextId, reqs, listed>>

\* Variant: the item check placed before the test of the handle
OrderStatusValidatesFirst(o) ==
  IF InvalidOrder(o) THEN 400
  ELSE IF db = "None" THEN 503
  ELSE IF db = "Failing" THEN 500
  ELSE 200
\* The status create_order ends with: 503 when the handle is absent, else
\* 400 for an invalid order, else the outcome of create_document (an
\* exception it raises is not caught: 500)
OrderStatus(o) ==
  IF db = "None" THEN 503
  ELSE IF InvalidOrder(o) THEN 400
  ELSE IF db = "Failing" THEN 500
  ELSE 200

\* POST /api/orders
create_order(o) ==
  /\ Receive
  /\ LET status == OrderStatus(o) IN
     IF status = 200
     THEN /\ order' = Append(order, NewDocument(o, nextId))
          /\ nextId' = nextId + 1
          /\ last' = Response("create_order", issued', o, 200,
                              [order_id |-> str(nextId), status |-> "received"])
     ELSE /\ UNCHANGED <<order, nextId>>
          /\ last' = Response("create_order", issued', o, status,
                       [detail |-> CASE status = 503 -> "Database not available"
                                     [] status = 400 -> "Invalid order items"
                                     [] OTHER -> "Internal Server Error"])
  /\ UNCHANGED <<db, product, product0, reqs, listed>>

\* Variant: the test of the handle dropped
FallbackNever == FALSE
\* if db is None (list_products)
UseFallback == db = "None"

\* GET /api/products, up to the count read by _ensure_seed_products
list_products(r) ==
  /\ Receive
  /\ Free(r)
  /\ IF UseFallback
     THEN /\ last' = Response("list_products", issued', NoBody, 200,
                              fallback_products)
          /\ listed' = listed + 1
          /\ UNCHANGED reqs
     ELSE IF db # "Working"
     THEN \* the storage call raises and the exception is not caught
          /\ last' = Response("list_products", issued', NoBody, 500,
                              [detail |-> "Internal Server Error"])
          /\ listed' = listed + 1
          /\ UNCHANGED reqs
     ELSE /\ reqs' = [reqs EXCEPT ![r] = [pc |-> "counted", req |-> issued',
                                          count |-> Len(product)]]
          /\ UNCHANGED <<last, listed>>
  /\ UNCHANGED <<db, product, order, product0, nextId>>

\* _ensure_seed_products: the insert of the samples when the count read was 0
seed_products(r) ==
  /\ reqs[r].pc = "counted"
  /\ NeedsSeed(reqs[r].count)
  /\ product' = insert_many(product, sample_products, nextId)
  /\ nextId' = nextId + Len(sample_products)
  /\ reqs' = [reqs EXCEPT ![r].pc = "seeded"]
  /\ UNCHANGED <<db, order, product0, issued, listed, last>>

\* docs = get_documents("product"); return [_serialize(d) for d in docs]
fetch_products(r) ==
  /\ \/ reqs[r].pc = "seeded"
     \/ reqs[r].pc = "counted" /\ ~NeedsSeed(reqs[r].count)
  /\ reqs' = [reqs EXCEPT ![r] = Idle]
  /\ last' = Response("list_products", reqs[r].req, NoBody, 200,
                      LET docs == get_documents(product) IN
                        [i \in 1..Len(docs) |-> _serialize(docs[i])])
  /\ listed' = listed + 1
  /\ UNCHANGED <<db, product, order, product0, nextId, issued>>

\* Variant: the slice dropped
ShownAll(collections) == collections
\* response["collections"] = collections[:10]
Shown(collections) == SubSeq(collections, 1, Min(CollectionsShown, Len(collections)))

\* str(e)[:50]
Truncated(text) == SubSeq(text, 1, Min(ErrTextShown, Len(text)))

\* "Set" if os.getenv(name) else "Not Set"
SetOrNot(isSet) == IF isSet THEN "Set" ELSE "Not Set"

\* response["database"] as test_database leaves it: a fixed label, followed
\* by the truncated text of the exception list_collection_names raised
DatabaseStatus(errText) ==
  IF db = "None"
  THEN [label |-> "Available but not initialized", text |-> <<>>]
  ELSE IF db = "Working"
  THEN [label |-> "Connected & Working", text |-> <<>>]
  ELSE [label |-> "Connected but Error: ", text |-> Truncated(errText)]

\* GET /test; the environment variables read and the collections the
\* database holds are inputs of the call
test_database(errLen, extra, url, name) ==
  /\ Receive
  /\ last' = Response("test_database", issued', NoBody, 200,
       [backend |-> "Running",
        database |-> DatabaseStatus(ErrText(errLen)),
        database_url |-> SetOrNot(url),
        database_name |-> SetOrNot(name),
        connection_status |-> IF db = "None" THEN "Not Connected" ELSE "Connected",
        collections |-> IF db = "Working"
                        THEN Shown(list_collection_names(extra)) ELSE <<>>])
  /\ UNCHANGED <<db, product, order, product0, nextId, reqs, listed>>

Next ==
  \/ read_root
  \/ health
  \/ \E o \in Order : create_order(o)
  \/ \E r \in Conc : list_products(r)
  \/ \E r \in Conc : seed_products(r)
  \/ \E r \in Conc : fetch_products(r)
  \/ \E n \in (IF db = "Failing" THEN ErrLens ELSE {0}),
        extra \in (IF db = "Working" THEN ExtraCounts ELSE {0}),
        url \in BOOLEAN, name \in BOOLEAN :
       test_database(n, extra, url, name)

Spec == Init /\ [][Next]_vars

\* Requests served one at a time: a request is received only when no
\* listing is in flight
Quiet == \A r \in Conc : reqs[r].pc = "idle"
SeqNext == (Quiet /\ Next) \/ (~Quiet /\ \E r \in Conc : seed_products(r) \/ fetch_products(r))
SeqSpec == Init /\ [][SeqNext]_vars

\* ---------------------------------------------------------------- claims
\* The step in which a request of the given kind gets its response
Completed(kind) == last'.req # last.req /\ last'.kind = kind

\* A non-empty item list whose quantities are all strictly positive
PositiveItems(items) ==
  /\ Len(items) > 0
  /\ \A j \in 1..Len(items) : items[j].quantity > 0

\* An empty item list, or an item whose quantity is zero or negative
Rejectable(items) ==
  \/ items = <<>>
  \/ \E j \in 1..Len(items) : items[j].quantity <= 0

WithoutId(doc) == [k \in DOMAIN doc \ {"_id"} |-> doc[k]]

\* C1: every document of the 'order' collection has a non-empty item list
\* whose quantities are all strictly greater than 0.
C1_PersistedOrdersPositive ==
  \A i \in 1..Len(order) : PositiveItems(order[i].items)

C1_Witness ==
  /\ Len(order) >= 2
  /\ last.kind = "create_order" /\ last.status = 400

\* C2: with the handle present, a POST /api/orders whose item list is empty
\* or holds an item of quantity <= 0 ends with status 400 and leaves the
\* 'order' (and 'product') collection exactly as it was.
C2_InvalidOrderRejected ==
  [][(Completed("create_order") /\ db # "None" /\ Rejectable(last'.payload.items))
       => (last'.status = 400 /\ order' = order /\ product' = product)]_vars

C2_Witness ==
  /\ db = "Working"
  /\ last.kind = "create_order" /\ last.status = 400
  /\ Len(last.payload.items) = 2
  /\ last.payload.items[1].quantity > 0
  /\ last.payload.items[2].quantity <= 0
  /\ order # <<>>

\* C3: with storage working, a POST /api/orders whose item list is non-empty
\* with all quantities > 0 answers status "received" with a non-empty
\* order_id and appends exactly one document, holding the submitted items,
\* to the 'order' collection.
C3_ValidOrderReceived ==
  [][(Completed("create_order") /\ db = "Working" /\ PositiveItems(last'.payload.items))
       => /\ last'.status = 200
          /\ last'.body.status = "received"
          /\ last'.body.order_id # ""
          /\ Len(order') = Len(order) + 1
          /\ SubSeq(order', 1, Len(order)) = order
          /\ order'[Len(order')].items = last'.payload.items
          /\ product' = product]_vars

C3_Witness ==
  /\ db = "Working"
  /\ last.kind = "create_order" /\ last.status = 200
  /\ Len(last.payload.items) = 2
  /\ Len(order) >= 2
  /\ order[Len(order)].items = last.payload.items

\* C4: served one at a time on a store that started empty, once a listing has
\* completed the 'product' collection holds exactly the four sample products,
\* however many listings follow.
C4_SequentialSeedOnce ==
  (db = "Working" /\ product0 = <<>> /\ listed >= 1)
    => /\ Len(product) = 4
       /\ \A i \in 1..4 : WithoutId(product[i]) = sample_products[i]

C4_Witness ==
  /\ db = "Working" /\ product0 = <<>>
  /\ listed >= 2
  /\ Len(product) = 4

\* C5: with the handle absent every POST /api/orders ends with status 503,
\* whatever its items, and nothing is persisted.
C5_UnavailableWins ==
  db = "None"
    => /\ order = <<>>
       /\ product = product0
       /\ (last.kind = "create_order" => last.status = 503)

C5_Witness ==
  /\ db = "None"
  /\ last.kind = "create_order" /\ last.status = 503
  /\ last.payload.items # <<>>
  /\ last.payload.items[1].quantity <= 0

\* C6: with the handle absent GET /api/products answers 200 with exactly the
\* one fallback record, no listing ever reaches the seeding count, and no
\* collection changes.
C6_FallbackListing ==
  db = "None"
    => /\ \A r \in Conc : reqs[r].pc = "idle"
       /\ product = product0
       /\ order = <<>>
       /\ (last.kind = "list_products"
             => /\ last.status = 200
                /\ Len(last.body) = 1
                /\ last.body[1].id = "demo-1"
                /\ last.body[1].title = "Classic Tee")

C6_Witness ==
  /\ db = "None"
  /\ last.kind = "list_products" /\ last.status = 200
  /\ product0 # <<>>

\* C7: with storage working every completed GET /api/products returns a
\* non-empty list, and at least the four sample products when the store
\* started empty, under every interleaving.
C7_ListingNeverEmpty ==
  (db = "Working" /\ last.kind = "list_products")
    => /\ last.status = 200
       /\ Len(last.body) >= 1
       /\ (product0 = <<>>
             => /\ Len(last.body) >= 4
                /\ \A i \in 1..4 : last.body[i].title = sample_products[i].title)

C7_Witness ==
  /\ db = "Working" /\ product0 = <<>>
  /\ last.kind = "list_products" /\ Len(last.body) = 4
  /\ \E r \in Conc : reqs[r].pc = "counted" /\ reqs[r].count = 0

\* C8: GET /test always answers 200, changes no collection, reports at most
\* 10 collection names, and its 'database' field is the status of the
\* storage state: not initialized when the handle is absent, connected and
\* working, or connected but error with at most 50 characters of error text.
C8_TestAlwaysAnswers ==
  [][Completed("test_database")
       => /\ last'.status = 200
          /\ product' = product /\ order' = order
          /\ Len(last'.body.collections) <= 10
          /\ LET d == last'.body.database IN
               \/ db = "None" /\ d.label = "Available but not initialized"
                              /\ d.text = <<>>
               \/ db = "Working" /\ d.label = "Connected & Working"
                                 /\ d.text = <<>>
               \/ db = "Failing" /\ d.label = "Connected but Error: "
                                 /\ Len(d.text) <= 50]_vars

C8_Witness ==
  /\ db = "Working"
  /\ last.kind = "test_database"
  /\ product # <<>>
  /\ Len(last.body.collections) = 10
  /\ last.body.collections[10] = "coll9"

\* C9: the seeding insert acts on the count read earlier, not on what the
\* collection holds by then: every seeding step is made by a request that
\* read count 0 and appends the four samples again, so two listings that
\* both read 0 leave eight products.
C9_SeedActsOnStaleCount ==
  [][\A r \in Conc :
       (reqs[r].pc = "counted" /\ reqs'[r].pc = "seeded")
         => /\ reqs[r].count = 0
            /\ Len(product') = Len(product) + 4
            /\ SubSeq(product', 1, Len(product)) = product
            /\ \A i \in 1..4 :
                 WithoutId(product'[Len(product) + i]) = sample_products[i]]_vars

C9_Witness ==
  /\ db = "Working" /\ product0 = <<>>
  /\ Len(product) = 8
  /\ \A i \in 1..4 : WithoutId(product[i]) = WithoutId(product[i + 4])
  /\ \A r \in Conc : reqs[r].pc = "idle"

\* C10 as stated: each record a listing returns has '_id' removed, 'id' set
\* to the string form of the identifier, and every other stored field
\* (a stored 'id' included) with its stored value; the store is unchanged.
C10_AllOtherFieldsPass ==
  [][(Completed("list_products") /\ db = "Working")
       => /\ product' = product
          /\ Len(last'.body) = Len(product)
          /\ \A i \in 1..Len(product) :
               LET doc == product[i]
                   out == last'.body[i]
               IN /\ DOMAIN out = (DOMAIN doc \ {"_id"}) \cup {"id"}
                  /\ out["id"] = str(doc["_id"])
                  /\ \A k \in DOMAIN doc \ {"_id"} : out[k] = doc[k]]_vars

\* C10, amended: as above, for every other stored field except one named
\* 'id', whose stored value is replaced by the string form of '_id'.
C10_OtherFieldsPassExceptId ==
  [][(Completed("list_products") /\ db = "Working")
       => /\ product' = product
          /\ Len(last'.body) = Len(product)
          /\ \A i \in 1..Len(product) :
               LET doc == product[i]
                   out == last'.body[i]
               IN /\ DOMAIN out = (DOMAIN doc \ {"_id"}) \cup {"id"}
                  /\ out["id"] = str(doc["_id"])
                  /\ \A k \in DOMAIN doc \ {"_id", "id"} : out[k] = doc[k]]_vars

C10_Witness ==
  /\ db = "Working"
  /\ last.kind = "list_products"
  /\ product0 = <<LegacyDocWithId>>
  /\ Len(last.body) = 1
  /\ last.body[1].id = str(901)
  /\ product[1].id = "sku-7"

====
